---- MODULE Spec2Model ----
(***************************************************************************)
(* A model of gpflow/expectations.py: the multiple-dispatch table of       *)
(* expectation rules, the quadrature fallback and the generic quadrature   *)
(* rule.  Tensors are kept symbolic: a result is a term (a tuple whose     *)
(* first element names the tensor operation that built it) or a raised     *)
(* exception <<"raise", name>>.  Control flow (dispatch, declining,        *)
(* exceptions, recursion over composite kernels) is modelled exactly.      *)
(***************************************************************************)
EXTENDS Integers, Sequences, FiniteSets, TLC

VARIABLES pc, args, out

vars == <<pc, args, out>>

(***************************************************************************)
(* Bounds of the model.                                                    *)
(***************************************************************************)
\* longest kern_list of a composite (Add / Prod) kernel
MaxKernList == 2
\* largest |coefficient| of a Linear mean function in the numeric model
MaxCoef == 1
\* largest |mu| and largest standard deviation in the numeric model
MaxMu == 2
MaxStd == 2

(***************************************************************************)
(* Program constants.                                                      *)
(***************************************************************************)
\* def expectation(p, obj1, feature1, obj2, feature2, H=20)
DefaultH == 20
\* tf.assert_equal(tf.rank(p.cov), 2, ...)
DiagCovRank == 2

(***************************************************************************)
(* Classes.  A class is named by a string; Base gives its direct base      *)
(* class (single inheritance everywhere in the hierarchy used here).       *)
(***************************************************************************)
Classes ==
  {"object", "NoneType", "function", "ndarray",
   "MeanFunction", "Zero", "Constant", "LinearMean", "Identity",
   "Kern", "RBF", "LinearKern", "Add", "Prod",
   "InducingFeature", "InducingPoints"}

Base(c) ==
  CASE c = "Zero"           -> "Constant"
    [] c = "Constant"       -> "MeanFunction"
    [] c = "Identity"       -> "LinearMean"
    [] c = "LinearMean"     -> "MeanFunction"
    [] c = "RBF"            -> "Kern"
    [] c = "LinearKern"     -> "Kern"
    [] c = "Add"            -> "Kern"
    [] c = "Prod"           -> "Kern"
    [] c = "InducingPoints" -> "InducingFeature"
    [] OTHER                -> "object"

RECURSIVE IsSubclass(_, _)
IsSubclass(c, d) ==
  IF c = d THEN TRUE
  ELSE IF c = "object" THEN FALSE
  ELSE IsSubclass(Base(c), d)

IsInstance(x, c) == IsSubclass(x.cls, c)

(***************************************************************************)
(* Objects.  Every operand is a record of the same shape; record equality  *)
(* is object identity (name tells two objects of equal parameters apart).  *)
(***************************************************************************)
MkObj(cls, name, ARD, slice, dims, kern_list) ==
  [cls |-> cls, name |-> name, ARD |-> ARD, slice |-> slice, dims |-> dims,
   kern_list |-> kern_list]

NoneObj == MkObj("NoneType", 0, FALSE, TRUE, {}, <<>>)
MkMean(cls) == MkObj(cls, 1, FALSE, TRUE, {}, <<>>)
\* active_dims is a slice (slice = TRUE) or an index array (its set is dims)
MkKern(cls, name, ARD, slice, dims) == MkObj(cls, name, ARD, slice, dims, <<>>)
\* Combination.__init__ gives a composite the active_dims slice(input_dim)
MkComb(cls, kern_list) == MkObj(cls, 1, FALSE, TRUE, {}, kern_list)

MkFeat(cls, name) == [cls |-> cls, name |-> name]
NoneFeat == MkFeat("NoneType", 0)

Gaussian(rank) == [cls |-> "Gaussian", covRank |-> rank]

(***************************************************************************)
(* The dispatch table: every @dispatch registration of expectations.py, in *)
(* source order, as the four operand classes after Gaussian.  A tuple of   *)
(* classes in a registration stands for one signature per member.          *)
(***************************************************************************)
Sig(c1, c2, c3, c4, rule) == [types |-> <<c1, c2, c3, c4>>, rule |-> rule]

SignaturesNoConstConst ==
  << Sig("object", "InducingFeature", "object", "InducingFeature", "quad"),
     Sig("object", "InducingFeature", "object", "NoneType", "quad"),
     Sig("object", "NoneType", "object", "InducingFeature", "quad"),
     Sig("object", "NoneType", "object", "NoneType", "quad"),
     Sig("MeanFunction", "NoneType", "Kern", "InducingFeature", "mean_kern_swap"),
     Sig("RBF", "NoneType", "NoneType", "NoneType", "rbf_psi0"),
     Sig("RBF", "InducingPoints", "NoneType", "NoneType", "rbf_psi1"),
     Sig("RBF", "InducingPoints", "Identity", "NoneType", "rbf_identity"),
     Sig("RBF", "InducingPoints", "LinearMean", "NoneType", "rbf_linmean"),
     Sig("RBF", "InducingPoints", "Constant", "NoneType", "rbf_constant"),
     Sig("LinearKern", "InducingPoints", "RBF", "InducingPoints", "lin_rbf_swap"),
     Sig("RBF", "InducingPoints", "LinearKern", "InducingPoints", "rbf_lin"),
     Sig("RBF", "InducingPoints", "RBF", "InducingPoints", "rbf_rbf"),
     Sig("LinearMean", "NoneType", "NoneType", "NoneType", "mean_at_mu"),
     Sig("Constant", "NoneType", "NoneType", "NoneType", "mean_at_mu"),
     Sig("LinearMean", "NoneType", "LinearMean", "NoneType", "linmean_linmean"),
     Sig("MeanFunction", "NoneType", "Constant", "NoneType", "mean_const_swap"),
     Sig("Constant", "NoneType", "MeanFunction", "NoneType", "const_mean"),
     Sig("Add", "NoneType", "NoneType", "NoneType", "add_psi0"),
     Sig("Add", "InducingPoints", "NoneType", "NoneType", "add_psi1"),
     Sig("Add", "InducingPoints", "LinearMean", "NoneType", "add_mean"),
     Sig("Add", "InducingPoints", "Constant", "NoneType", "add_mean"),
     Sig("Add", "InducingPoints", "Add", "InducingPoints", "add_add"),
     Sig("Prod", "NoneType", "NoneType", "NoneType", "prod_psi0"),
     Sig("Prod", "InducingPoints", "NoneType", "NoneType", "prod_psi1"),
     Sig("Prod", "InducingPoints", "Prod", "InducingPoints", "prod_prod") >>

Signatures ==
  << Sig("object", "InducingFeature", "object", "InducingFeature", "quad"),
     Sig("object", "InducingFeature", "object", "NoneType", "quad"),
     Sig("object", "NoneType", "object", "InducingFeature", "quad"),
     Sig("object", "NoneType", "object", "NoneType", "quad"),
     Sig("MeanFunction", "NoneType", "Kern", "InducingFeature", "mean_kern_swap"),
     Sig("RBF", "NoneType", "NoneType", "NoneType", "rbf_psi0"),
     Sig("RBF", "InducingPoints", "NoneType", "NoneType", "rbf_psi1"),
     Sig("RBF", "InducingPoints", "Identity", "NoneType", "rbf_identity"),
     Sig("RBF", "InducingPoints", "LinearMean", "NoneType", "rbf_linmean"),
     Sig("RBF", "InducingPoints", "Constant", "NoneType", "rbf_constant"),
     Sig("LinearKern", "InducingPoints", "RBF", "InducingPoints", "lin_rbf_swap"),
     Sig("RBF", "InducingPoints", "LinearKern", "InducingPoints", "rbf_lin"),
     Sig("RBF", "InducingPoints", "RBF", "InducingPoints", "rbf_rbf"),
     Sig("LinearMean", "NoneType", "NoneType", "NoneType", "mean_at_mu"),
     Sig("Constant", "NoneType", "NoneType", "NoneType", "mean_at_mu"),
     Sig("LinearMean", "NoneType", "LinearMean", "NoneType", "linmean_linmean"),
     Sig("Constant", "NoneType", "Constant", "NoneType", "const_const"),
     Sig("MeanFunction", "NoneType", "Constant", "NoneType", "mean_const_swap"),
     Sig("Constant", "NoneType", "MeanFunction", "NoneType", "const_mean"),
     Sig("Add", "NoneType", "NoneType", "NoneType", "add_psi0"),
     Sig("Add", "InducingPoints", "NoneType", "NoneType", "add_psi1"),
     Sig("Add", "InducingPoints", "LinearMean", "NoneType", "add_mean"),
     Sig("Add", "InducingPoints", "Constant", "NoneType", "add_mean"),
     Sig("Add", "InducingPoints", "Add", "InducingPoints", "add_add"),
     Sig("Prod", "NoneType", "NoneType", "NoneType", "prod_psi0"),
     Sig("Prod", "InducingPoints", "NoneType", "NoneType", "prod_psi1"),
     Sig("Prod", "InducingPoints", "Prod", "InducingPoints", "prod_prod") >>

\* multipledispatch: a signature applies when every operand class is a
\* subclass of the class it names
Matches(i, types) ==
  \A k \in 1..4 : IsSubclass(types[k], Signatures[i].types[k])

Matching(types) == {i \in DOMAIN Signatures : Matches(i, types)}

\* multipledispatch.conflict.supercedes: a is at least as specific as b
Supercedes(i, j) ==
  \A k \in 1..4 : IsSubclass(Signatures[i].types[k], Signatures[j].types[k])

\* the signatures of M that no other signature of M is strictly more
\* specific than
Minimal(M) ==
  {i \in M : \A j \in M : Supercedes(j, i) => Supercedes(i, j)}

\* the signatures of M more specific than every signature of M
MostSpecific(M) == {i \in M : \A j \in M : Supercedes(i, j)}

\* Dispatcher.dispatch: the first applicable signature in the ordering,
\* which lists a signature before every signature it supersedes (among
\* unordered signatures the earlier registration is taken here);
\* "no_match" when none applies
resolve(types) ==
  LET M == Minimal(Matching(types))
  IN IF M = {} THEN "no_match"
     ELSE Signatures[CHOOSE i \in M : \A j \in M : i <= j].rule

\* Dispatcher._cache: the rule resolved for each tuple of operand classes
DispatchCache == [t \in Classes \X Classes \X Classes \X Classes |-> resolve(t)]

\* Dispatcher.__call__'s lookup of the rule for the operand classes
dispatch(types) == DispatchCache[types]

TypesOf(obj1, feat1, obj2, feat2) == <<obj1.cls, feat1.cls, obj2.cls, feat2.cls>>

(***************************************************************************)
(* Results.  A raised exception is <<"raise", name>>; anything else is a   *)
(* tensor term.                                                            *)
(***************************************************************************)
Raise(e) == <<"raise", e>>
IsErr(v) == v[1] = "raise"

\* tf.matrix_transpose(x): an exception raised while x is computed
\* propagates
matrix_transpose(v) == IF IsErr(v) THEN v ELSE <<"matrix_transpose", v>>

\* a[:, :, None] * b[:, None, :] of two computed tensors, a computed first
outer(a, b) ==
  IF IsErr(a) THEN a
  ELSE IF IsErr(b) THEN b
  ELSE <<"mul", <<"index", a, "[:,:,None]">>, <<"index", b, "[:,None,:]">>>>

RECURSIVE reduce(_, _, _)
reduce(op, rs, n) ==
  IF n = 1 THEN rs[1] ELSE <<op, reduce(op, rs, n - 1), rs[n]>>

FirstErr(rs) == CHOOSE i \in DOMAIN rs : IsErr(rs[i]) /\ \A j \in 1..(i - 1) : ~IsErr(rs[j])

\* functools.reduce(op, [f(k) for k in ...]): the list is built first, in
\* order, so the first exception raised by an element propagates; reduce
\* of an empty list raises TypeError
reduce_list(op, rs) ==
  IF \E i \in DOMAIN rs : IsErr(rs[i]) THEN rs[FirstErr(rs)]
  ELSE IF Len(rs) = 0 THEN Raise("TypeError")
  ELSE reduce(op, rs, Len(rs))

(***************************************************************************)
(* Kernel structure read by the rules (kernels.py).                        *)
(***************************************************************************)
\* Combination.on_separate_dimensions: False when any child's active_dims
\* is a slice, else whether no two children share a dimension
on_separate_dimensions(kern) ==
  /\ \A i \in DOMAIN kern.kern_list : ~kern.kern_list[i].slice
  /\ \A i, j \in DOMAIN kern.kern_list :
        i < j => kern.kern_list[i].dims \cap kern.kern_list[j].dims = {}

\* Kern.on_seperate_dims(other): False when either active_dims is a slice,
\* else whether the two index sets are disjoint
on_seperate_dims(k1, k2) ==
  /\ ~k1.slice
  /\ ~k2.slice
  /\ k1.dims \cap k2.dims = {}

(***************************************************************************)
(* The generic rule: quadrature.                                           *)
(***************************************************************************)
\* get_eval_func(obj, feature, slice).  GPflowError is not defined in the
\* module, so the raise statement that names it raises NameError.
get_eval_func(obj, feature, slice) ==
  IF feature # NoneFeat
  THEN IF ~IsInstance(feature, "InducingFeature") \/ ~IsInstance(obj, "Kern")
       THEN Raise("NameError")
       ELSE <<"Kuf", obj, feature, slice>>
  ELSE IF IsInstance(obj, "MeanFunction") THEN <<"mean", obj, slice>>
  ELSE IF IsInstance(obj, "Kern") THEN <<"Kdiag", obj>>
  ELSE IF IsInstance(obj, "function") THEN <<"fn", obj>>
  ELSE Raise("NotImplementedError")

\* the integrand built by the generic rule; its lambdas run inside mvnquad,
\* the left factor of the product first
eval_func(obj1, feature1, obj2, feature2) ==
  IF obj2 = NoneObj THEN get_eval_func(obj1, feature1, "...")
  ELSE IF obj1 = NoneObj THEN get_eval_func(obj2, feature1, "...")
  ELSE LET e1 == get_eval_func(obj1, feature1, "[:,:,None]")
           e2 == get_eval_func(obj2, feature2, "[:,None,:]")
       IN IF IsErr(e1) THEN e1
          ELSE IF IsErr(e2) THEN e2
          ELSE <<"mul", e1, e2>>

\* mvnquad(f, p.mu, p.cov, H)
mvnquad(f, p, H) == IF IsErr(f) THEN f ELSE <<"mvnquad", f, H>>

\* expectation(p, obj1, feature1, obj2, feature2, H=20), the generic rule
expectation_quad(p, obj1, feature1, obj2, feature2, H) ==
  mvnquad(eval_func(obj1, feature1, obj2, feature2), p, H)

\* EXPECTATION_QUAD_IMPL(*args): the generic rule, H left at its default
EXPECTATION_QUAD_IMPL(p, obj1, feature1, obj2, feature2) ==
  expectation_quad(p, obj1, feature1, obj2, feature2, DefaultH)

\* quadrature_fallback's wrapper, r being what function(*args, **kwargs)
\* returned or raised
quadrature_fallback(r, p, obj1, feature1, obj2, feature2) ==
  IF IsErr(r) /\ r[2] \in {"KeyError", "NotImplementedError"}
  THEN EXPECTATION_QUAD_IMPL(p, obj1, feature1, obj2, feature2)
  ELSE r

(***************************************************************************)
(* The registered rules.  Each is the body of one @dispatch function;      *)
(* expectation (below) is the dispatcher they call back into.  kw is the   *)
(* keyword arguments of a call: <<>> or <<H>>.                             *)
(***************************************************************************)
RECURSIVE expectation(_, _, _, _, _, _)

NoKw == <<>>

\* (MeanFunction, None, Kern, InducingFeature)
mean_kern_swap(p, mean, none, kern, feat) ==
  matrix_transpose(expectation(p, kern, feat, mean, NoneFeat, NoKw))

\* (RBF, None, None, None): kern.Kdiag(p.mu)
rbf_psi0(p, kern) == <<"Kdiag_at_mu", kern>>

\* (RBF, InducingPoints, None, None)
rbf_psi1(p, kern, feat) == <<"eKxz_rbf", kern, feat>>

\* (RBF, InducingPoints, Identity, None)
rbf_identity(p, rbf_kern, feat, identity_mean) ==
  <<"exKxz_rbf", rbf_kern, feat>>

\* (RBF, InducingPoints, Linear mean, None)
rbf_linmean(p, rbf_kern, feat, linear_mean) ==
  LET exKxz == expectation(p, rbf_kern, feat, MkMean("Identity"), NoneFeat, NoKw)
      eKxz == expectation(p, rbf_kern, feat, NoneObj, NoneFeat, NoKw)
  IN IF IsErr(exKxz) THEN exKxz
     ELSE IF IsErr(eKxz) THEN eKxz
     ELSE <<"add", <<"eAxKxz", exKxz, linear_mean>>, <<"ebKxz", eKxz, linear_mean>>>>

\* (RBF, InducingPoints, Constant, None)
rbf_constant(p, rbf_kern, feat, constant_mean) ==
  LET c == <<"mean_at_mu", constant_mean>>
      eKxz == expectation(p, rbf_kern, feat, NoneObj, NoneFeat, NoKw)
  IN outer(eKxz, c)

\* a slip: the exchanged call keeps the features in place
lin_rbf_swap_unswapped_features(p, lin_kern, feat1, rbf_kern, feat2) ==
  matrix_transpose(expectation(p, rbf_kern, feat1, lin_kern, feat2, NoKw))

\* (Linear kernel, InducingPoints, RBF, InducingPoints)
lin_rbf_swap(p, lin_kern, feat1, rbf_kern, feat2) ==
  matrix_transpose(expectation(p, rbf_kern, feat2, lin_kern, feat1, NoKw))

\* a slip: the Linear kernel's ARD is not looked at
rbf_lin_ignoring_ARD(p, rbf_kern, feat1, lin_kern, feat2) ==
  IF feat1 # feat2 \/ ~lin_kern.slice \/ ~rbf_kern.slice
  THEN Raise("NotImplementedError")
  ELSE <<"eKzxKxz_rbf_lin", rbf_kern, feat1, lin_kern>>

\* (RBF, InducingPoints, Linear kernel, InducingPoints), before the wrapper
rbf_lin(p, rbf_kern, feat1, lin_kern, feat2) ==
  IF feat1 # feat2 \/ lin_kern.ARD \/ ~lin_kern.slice \/ ~rbf_kern.slice
  THEN Raise("NotImplementedError")
  ELSE <<"eKzxKxz_rbf_lin", rbf_kern, feat1, lin_kern>>

\* (RBF, InducingPoints, RBF, InducingPoints), before the wrapper
rbf_rbf(p, kern1, feat1, kern2, feat2) ==
  IF feat1 # feat2 \/ kern1 # kern2
  THEN Raise("NotImplementedError")
  ELSE <<"eKzxKxz_rbf", kern1, feat1>>

\* (Linear | Constant, None, None, None): mean(p.mu)
mean_at_mu(p, mean) == <<"mean_at_mu", mean>>

\* (Linear mean, None, Linear mean, None)
linmean_linmean(p, mean1, mean2) == <<"second_moment_linear", mean1, mean2>>

\* (Constant, None, Constant, None)
const_const(p, mean1, mean2) ==
  outer(<<"mean_at_mu", mean1>>, <<"mean_at_mu", mean2>>)

\* (MeanFunction, None, Constant, None)
mean_const_swap(p, mean1, mean2) ==
  matrix_transpose(expectation(p, mean2, NoneFeat, mean1, NoneFeat, NoKw))

\* (Constant, None, MeanFunction, None)
const_mean(p, mean1, mean2) ==
  LET e_mean2 == expectation(p, mean2, NoneFeat, NoneObj, NoneFeat, NoKw)
  IN outer(<<"mean_at_mu", mean1>>, e_mean2)

\* (Add, None, None, None)
add_psi0(p, kern) ==
  LET expectation_fn(k) == expectation(p, k, NoneFeat, NoneObj, NoneFeat, NoKw)
  IN reduce_list("add", [i \in DOMAIN kern.kern_list |-> expectation_fn(kern.kern_list[i])])

\* a slip: the last child is left out of the sum
add_psi1_dropping_last(p, kern, feat) ==
  LET expectation_fn(k) == expectation(p, k, feat, NoneObj, NoneFeat, NoKw)
      rs == [i \in DOMAIN kern.kern_list |-> expectation_fn(kern.kern_list[i])]
  IN reduce_list("add", IF Len(rs) > 1 THEN SubSeq(rs, 1, Len(rs) - 1) ELSE rs)

\* (Add, InducingPoints, None, None)
add_psi1(p, kern, feat) ==
  LET expectation_fn(k) == expectation(p, k, feat, NoneObj, NoneFeat, NoKw)
  IN reduce_list("add", [i \in DOMAIN kern.kern_list |-> expectation_fn(kern.kern_list[i])])

\* (Add, InducingPoints, Linear | Constant mean, None)
add_mean(p, kern, feat, mean) ==
  LET expectation_fn(k) == expectation(p, k, feat, mean, NoneFeat, NoKw)
  IN reduce_list("add", [i \in DOMAIN kern.kern_list |-> expectation_fn(kern.kern_list[i])])

\* a slip: the children are paired by position (zip) in place of
\* it.product
add_add_zipped(p, kern1, feat1, kern2, feat2) ==
  IF feat1 # feat2 THEN Raise("NotImplementedError")
  ELSE
    LET feat == feat1
        n1 == Len(kern1.kern_list)
        n2 == Len(kern2.kern_list)
        cross(k1, k2) ==
          IF on_seperate_dims(k1, k2)
          THEN outer(expectation(p, k1, feat, NoneObj, NoneFeat, NoKw),
                     expectation(p, k2, feat, NoneObj, NoneFeat, NoKw))
          ELSE expectation(p, k1, feat, k2, feat, NoKw)
        crossexps ==
          [n \in 1..(IF n1 < n2 THEN n1 ELSE n2) |->
             cross(kern1.kern_list[n], kern2.kern_list[n])]
    IN reduce_list("add", crossexps)

\* (Add, InducingPoints, Add, InducingPoints), before the wrapper
add_add(p, kern1, feat1, kern2, feat2) ==
  IF feat1 # feat2 THEN Raise("NotImplementedError")
  ELSE
    LET feat == feat1
        n1 == Len(kern1.kern_list)
        n2 == Len(kern2.kern_list)
        \* it.product(kern1.kern_list, kern2.kern_list): kern1's children
        \* in the outer loop
        cross(k1, k2) ==
          IF on_seperate_dims(k1, k2)
          THEN outer(expectation(p, k1, feat, NoneObj, NoneFeat, NoKw),
                     expectation(p, k2, feat, NoneObj, NoneFeat, NoKw))
          ELSE expectation(p, k1, feat, k2, feat, NoKw)
        crossexps ==
          [n \in 1..(n1 * n2) |->
             cross(kern1.kern_list[((n - 1) \div n2) + 1],
                   kern2.kern_list[((n - 1) % n2) + 1])]
    IN reduce_list("add", crossexps)

\* (Prod, None, None, None)
prod_psi0(p, kern) ==
  IF ~on_separate_dimensions(kern) THEN Raise("NotImplementedError")
  ELSE IF p.covRank # DiagCovRank THEN Raise("InvalidArgumentError")
  ELSE LET expectation_fn(k) == expectation(p, k, NoneFeat, NoneObj, NoneFeat, NoKw)
       IN reduce_list("multiply", [i \in DOMAIN kern.kern_list |-> expectation_fn(kern.kern_list[i])])

\* a slip: the rank of p.cov is not asserted
prod_psi1_unasserted(p, kern, feat) ==
  IF ~on_separate_dimensions(kern) THEN Raise("NotImplementedError")
  ELSE LET expectation_fn(k) == expectation(p, k, feat, NoneObj, NoneFeat, NoKw)
       IN reduce_list("multiply", [i \in DOMAIN kern.kern_list |-> expectation_fn(kern.kern_list[i])])

\* (Prod, InducingPoints, None, None)
prod_psi1(p, kern, feat) ==
  IF ~on_separate_dimensions(kern) THEN Raise("NotImplementedError")
  ELSE IF p.covRank # DiagCovRank THEN Raise("InvalidArgumentError")
  ELSE LET expectation_fn(k) == expectation(p, k, feat, NoneObj, NoneFeat, NoKw)
       IN reduce_list("multiply", [i \in DOMAIN kern.kern_list |-> expectation_fn(kern.kern_list[i])])

\* (Prod, InducingPoints, Prod, InducingPoints), before the wrapper
prod_prod(p, kern1, feat1, kern2, feat2) ==
  IF feat1 # feat2 THEN Raise("NotImplementedError")
  ELSE IF kern1 # kern2 THEN Raise("NotImplementedError")
  ELSE IF ~on_separate_dimensions(kern1) THEN Raise("NotImplementedError")
  ELSE IF p.covRank # DiagCovRank THEN Raise("InvalidArgumentError")
  ELSE LET expectation_fn(k) == expectation(p, k, feat1, k, feat1, NoKw)
       IN reduce_list("multiply", [i \in DOMAIN kern1.kern_list |-> expectation_fn(kern1.kern_list[i])])

(***************************************************************************)
(* The dispatcher: Dispatcher.__call__ picks the rule by the operand       *)
(* classes and calls it with the keyword arguments.  Only the generic rule *)
(* has a parameter H; any other rule called with H raises TypeError, in    *)
(* the wrapped rules inside the wrapper's try, which does not catch it.    *)
(***************************************************************************)
expectation(p, obj1, feat1, obj2, feat2, kw) ==
  LET rule == dispatch(TypesOf(obj1, feat1, obj2, feat2))
  IN IF rule = "no_match" THEN Raise("NotImplementedError")
     ELSE IF rule = "quad"
       THEN expectation_quad(p, obj1, feat1, obj2, feat2,
                             IF kw = NoKw THEN DefaultH ELSE kw[1])
     ELSE IF kw # NoKw THEN Raise("TypeError")
     ELSE CASE rule = "mean_kern_swap" -> mean_kern_swap(p, obj1, feat1, obj2, feat2)
            [] rule = "rbf_psi0" -> rbf_psi0(p, obj1)
            [] rule = "rbf_psi1" -> rbf_psi1(p, obj1, feat1)
            [] rule = "rbf_identity" -> rbf_identity(p, obj1, feat1, obj2)
            [] rule = "rbf_linmean" -> rbf_linmean(p, obj1, feat1, obj2)
            [] rule = "rbf_constant" -> rbf_constant(p, obj1, feat1, obj2)
            [] rule = "lin_rbf_swap" -> lin_rbf_swap(p, obj1, feat1, obj2, feat2)
            [] rule = "rbf_lin" ->
                 quadrature_fallback(rbf_lin(p, obj1, feat1, obj2, feat2),
                                     p, obj1, feat1, obj2, feat2)
            [] rule = "rbf_rbf" ->
                 quadrature_fallback(rbf_rbf(p, obj1, feat1, obj2, feat2),
                                     p, obj1, feat1, obj2, feat2)
            [] rule = "mean_at_mu" -> mean_at_mu(p, obj1)
            [] rule = "linmean_linmean" -> linmean_linmean(p, obj1, obj2)
            [] rule = "const_const" -> const_const(p, obj1, obj2)
            [] rule = "mean_const_swap" -> mean_const_swap(p, obj1, obj2)
            [] rule = "const_mean" -> const_mean(p, obj1, obj2)
            [] rule = "add_psi0" -> add_psi0(p, obj1)
            [] rule = "add_psi1" -> add_psi1(p, obj1, feat1)
            [] rule = "add_mean" -> add_mean(p, obj1, feat1, obj2)
            [] rule = "add_add" ->
                 quadrature_fallback(add_add(p, obj1, feat1, obj2, feat2),
                                     p, obj1, feat1, obj2, feat2)
            [] rule = "prod_psi0" -> prod_psi0(p, obj1)
            [] rule = "prod_psi1" -> prod_psi1(p, obj1, feat1)
            [] rule = "prod_prod" ->
                 quadrature_fallback(prod_prod(p, obj1, feat1, obj2, feat2),
                                     p, obj1, feat1, obj2, feat2)

(***************************************************************************)
(* The operands calls are made with.                                       *)
(***************************************************************************)
rbfA == MkKern("RBF", 1, FALSE, TRUE, {})
rbfB == MkKern("RBF", 2, FALSE, FALSE, {1})
linA == MkKern("LinearKern", 1, FALSE, TRUE, {})
linARD == MkKern("LinearKern", 2, TRUE, TRUE, {})
linB == MkKern("LinearKern", 3, FALSE, FALSE, {2})
otherKern == MkKern("Kern", 1, FALSE, TRUE, {})

LeafKernels == {rbfA, rbfB, linA, linARD, linB, otherKern}
MeanFunctions ==
  {MkMean("Zero"), MkMean("Constant"), MkMean("LinearMean"), MkMean("Identity"),
   MkMean("MeanFunction")}
PlainObjects == {NoneObj, MkMean("function"), MkMean("ndarray")}

SeqsUpTo(S, n) == UNION {[1..k -> S] : k \in 1..n}

\* the children composite kernels are built from
ChildKernels == {rbfA, rbfB, linB}
ProdKernels == {MkComb("Prod", kl) : kl \in SeqsUpTo(ChildKernels, MaxKernList)}
ProdChildren == {MkComb("Prod", <<rbfB, linB>>), MkComb("Prod", <<rbfA, linB>>)}
AddKernels ==
  {MkComb("Add", kl) : kl \in SeqsUpTo(ChildKernels \cup ProdChildren, MaxKernList)}

SimpleObjects == PlainObjects \cup MeanFunctions \cup LeafKernels
FirstOperands == SimpleObjects \cup ProdKernels \cup AddKernels
IsComposite(obj) == obj.kern_list # <<>>
\* second operands: for a simple first operand every simple object, for a
\* composite one None, the mean functions, a kernel and the operand itself;
\* and a few composites that differ from it
SecondOperands(obj1) ==
  (IF IsComposite(obj1)
   THEN {NoneObj, rbfA, obj1} \cup MeanFunctions
   ELSE SimpleObjects)
    \cup {MkComb("Add", <<rbfA, linB>>), MkComb("Add", <<rbfB>>),
          MkComb("Prod", <<rbfB, linB>>), MkComb("Prod", <<rbfA>>)}

Features ==
  {NoneFeat, MkFeat("InducingPoints", 1), MkFeat("InducingPoints", 2),
   MkFeat("InducingFeature", 3)}

Gaussians == {Gaussian(DiagCovRank), Gaussian(DiagCovRank + 1)}

\* keyword arguments: none, or a quadrature order
Kws == {NoKw, <<5>>}

(***************************************************************************)
(* The state machine: one call of expectation() from the outside.          *)
(***************************************************************************)
MkArgs(p, obj1, feat1, obj2, feat2, kw) ==
  [p |-> p, obj1 |-> obj1, feat1 |-> feat1, obj2 |-> obj2, feat2 |-> feat2,
   kw |-> kw]

\* the caller has built its operands; nothing has been computed yet
Init ==
  /\ pc = "idle"
  /\ \E p \in Gaussians, obj1 \in FirstOperands, feat1 \in Features,
        feat2 \in Features, kw \in Kws :
       \E obj2 \in SecondOperands(obj1) :
         args = MkArgs(p, obj1, feat1, obj2, feat2, kw)
  /\ out = <<"none">>

Rule == dispatch(TypesOf(args.obj1, args.feat1, args.obj2, args.feat2))

\* the call expectation(p, obj1, feat1, obj2, feat2, **kw), which dispatch
\* hands to one of the rules named
Call(rules) ==
  /\ Rule \in rules
  /\ out' = expectation(args.p, args.obj1, args.feat1, args.obj2, args.feat2, args.kw)
  /\ pc' = "done"
  /\ UNCHANGED args

SwapRules == {"mean_kern_swap", "lin_rbf_swap", "mean_const_swap"}
RBFRules ==
  {"rbf_psi0", "rbf_psi1", "rbf_identity", "rbf_linmean", "rbf_constant",
   "rbf_lin", "rbf_rbf"}
MeanRules == {"mean_at_mu", "linmean_linmean", "const_const", "const_mean"}
AddRules == {"add_psi0", "add_psi1", "add_mean", "add_add"}
ProdRules == {"prod_psi0", "prod_psi1", "prod_prod"}

CallQuadrature ==
  /\ pc = "idle"
  /\ Call({"quad"})
CallSwap ==
  /\ pc = "idle"
  /\ Call(SwapRules)
CallRBF ==
  /\ pc = "idle"
  /\ Call(RBFRules)
CallMean ==
  /\ pc = "idle"
  /\ Call(MeanRules)
CallAdd ==
  /\ pc = "idle"
  /\ Call(AddRules)
CallProd ==
  /\ pc = "idle"
  /\ Call(ProdRules)

Next ==
  \/ CallQuadrature
  \/ CallSwap
  \/ CallRBF
  \/ CallMean
  \/ CallAdd
  \/ CallProd

Spec == Init /\ [][Next]_vars

Done == pc = "done"

(***************************************************************************)
(* Properties.                                                             *)
(***************************************************************************)
Obj1 == args.obj1
Obj2 == args.obj2
Feat1 == args.feat1
Feat2 == args.feat2
PlainCall == Done /\ args.kw = NoKw

IsSharedProd(k) == k.cls = "Prod" /\ ~on_separate_dimensions(k)

\* C1: a product kernel whose children share input dimensions is fatal on
\* every path that reaches a Prod rule: the first-moment Prod rules, the
\* Prod x Prod rule, and a Prod child evaluated inside an Add rule
\* (Add x Add included); the call ends in an error, never in a value.
SharedDimsProdIsFatal ==
  PlainCall =>
    /\ (Rule \in {"prod_psi0", "prod_psi1"} /\ IsSharedProd(Obj1)) => IsErr(out)
    /\ (Rule = "prod_prod" /\ Feat1 = Feat2 /\ Obj1 = Obj2 /\ IsSharedProd(Obj1))
         => IsErr(out)
    /\ (Rule \in {"add_psi0", "add_psi1"}
          /\ \E i \in DOMAIN Obj1.kern_list : IsSharedProd(Obj1.kern_list[i]))
         => IsErr(out)
    /\ (Rule = "add_add" /\ Feat1 = Feat2
          /\ \E i \in DOMAIN Obj1.kern_list, j \in DOMAIN Obj2.kern_list :
               LET k1 == Obj1.kern_list[i]
                   k2 == Obj2.kern_list[j]
               IN \/ on_seperate_dims(k1, k2) /\ (IsSharedProd(k1) \/ IsSharedProd(k2))
                  \/ ~on_seperate_dims(k1, k2) /\ k1 = k2 /\ IsSharedProd(k1))
         => IsErr(out)

\* C2: RBF x Linear-kernel and RBF x RBF: when the rule declines, the call
\* returns the generic quadrature rule's result on the same five operands,
\* and no error; when it does not decline, the closed form, and quadrature
\* is not invoked.
CrossKernelDeclineIsQuadrature ==
  PlainCall =>
    /\ Rule = "rbf_lin" =>
         IF Feat1 # Feat2 \/ Obj2.ARD \/ ~Obj2.slice \/ ~Obj1.slice
         THEN /\ out = expectation_quad(args.p, Obj1, Feat1, Obj2, Feat2, DefaultH)
              /\ out[1] = "mvnquad"
         ELSE out = <<"eKzxKxz_rbf_lin", Obj1, Feat1, Obj2>>
    /\ Rule = "rbf_rbf" =>
         IF Feat1 # Feat2 \/ Obj1 # Obj2
         THEN /\ out = expectation_quad(args.p, Obj1, Feat1, Obj2, Feat2, DefaultH)
              /\ out[1] = "mvnquad"
         ELSE out = <<"eKzxKxz_rbf", Obj1, Feat1>>

\* C2's case: RBF x Linear declined only because the Linear kernel has ARD
\* set, and was answered by quadrature
CrossKernelDeclineWitness ==
  /\ PlainCall
  /\ Rule = "rbf_lin"
  /\ Feat1 = Feat2 /\ Obj2.ARD /\ Obj2.slice /\ Obj1.slice
  /\ out[1] = "mvnquad"

\* C3: a result computed by the quadrature engine is computed with the
\* order H the caller supplied (20 only when none was supplied), and a
\* supplied order is accepted for every operand combination.
QuadratureOrderHonoured ==
  Done =>
    /\ args.kw # NoKw => ~(IsErr(out) /\ out[2] = "TypeError")
    /\ out[1] = "mvnquad" =>
         out[3] = (IF args.kw = NoKw THEN DefaultH ELSE args.kw[1])

\* the operand and feature classes of a call
OperandClasses == Classes \ {"object", "InducingFeature", "InducingPoints"}
FeatureClasses == {"NoneType", "InducingFeature", "InducingPoints"}

Unambiguous(types) ==
  LET M == Matching(types)
  IN /\ \E i \in M : Signatures[i].rule = "quad"
     /\ Cardinality(MostSpecific(M)) = 1
     /\ \A i \in MostSpecific(M) : Signatures[i].rule = dispatch(types)

AmbiguousTuples ==
  {t \in OperandClasses \X FeatureClasses \X OperandClasses \X FeatureClasses :
     ~Unambiguous(t)}

\* C4: for every operand-class tuple the registered signatures that apply
\* are a non-empty set (a generic signature is among them) with a unique
\* most specific element, which is the rule dispatch selects.
DispatchUnambiguous ==
  /\ Unambiguous(TypesOf(Obj1, Feat1, Obj2, Feat2))
  /\ Done => Cardinality(AmbiguousTuples) = 0

\* C4's case: two Constant mean functions, where the swap rule, the
\* Constant x MeanFunction rule, the Constant x Constant rule and the
\* generic rule all apply, and the call was given to Constant x Constant
DispatchOverlapWitness ==
  /\ Done
  /\ Cardinality(Matching(TypesOf(Obj1, Feat1, Obj2, Feat2))) >= 4
  /\ Obj1.cls = "Zero" /\ Obj2.cls = "Constant"
  /\ Rule = "const_const"
  /\ ~IsErr(out)

\* C5: for a call given to a swap rule, expectation(p, A, fa, B, fb) is the
\* transpose of expectation(p, B, fb, A, fa), the exchanged call dispatched
\* afresh, also when the exchanged call declines into quadrature.
SwapSymmetry ==
  (PlainCall /\ Rule \in SwapRules) =>
    out = matrix_transpose(expectation(args.p, Obj2, Feat2, Obj1, Feat1, NoKw))

\* C5's case: Linear kernel x RBF with two different features, where the
\* exchanged call declines and is answered by quadrature
SwapSymmetryWitness ==
  /\ PlainCall
  /\ Rule = "lin_rbf_swap"
  /\ Feat1 # Feat2
  /\ out[1] = "matrix_transpose"
  /\ out[2][1] = "mvnquad"

\* C6: each first-moment Add rule returns the sum over all children of the
\* kernel, each once and in order, of expectation(p, child, <the same
\* remaining operands>), every child call dispatched on its own.
AddLinearity ==
  (PlainCall /\ Rule \in {"add_psi0", "add_psi1", "add_mean"}) =>
    LET child(i) == expectation(args.p, Obj1.kern_list[i], Feat1, Obj2, Feat2, NoKw)
        n == Len(Obj1.kern_list)
    IN /\ n >= 1
       /\ IF \E i \in 1..n : IsErr(child(i))
          THEN IsErr(out)
          ELSE IF n = 1 THEN out = child(1)
          ELSE IF n = 2 THEN out = <<"add", child(1), child(2)>>
          ELSE out = <<"add", reduce("add", [i \in 1..(n - 1) |-> child(i)], n - 1),
                       child(n)>>

\* C6's case: an Add kernel of two children with an inducing-points feature,
\* one child summed as its closed form and one as quadrature
AddLinearityWitness ==
  /\ PlainCall
  /\ Rule = "add_psi1"
  /\ Len(Obj1.kern_list) = 2
  /\ out[1] = "add"
  /\ out[2][1] = "eKxz_rbf"
  /\ out[3][1] = "mvnquad"

\* C7: a Prod first-moment rule given a covariance that is not of rank 2
\* raises: the assertion's error whenever the kernel passed the check of
\* separate dimensions (that check's own error otherwise); it never
\* returns a product of children, and never a quadrature value.
ProdNonDiagonalCovRaises ==
  (PlainCall /\ Rule \in {"prod_psi0", "prod_psi1"} /\ args.p.covRank # DiagCovRank) =>
    /\ IsErr(out)
    /\ out[2] = (IF on_separate_dimensions(Obj1)
                 THEN "InvalidArgumentError" ELSE "NotImplementedError")

\* C7's case: a Prod kernel on separate dimensions, an inducing-points
\* feature and a full covariance: the assertion's error reached the caller
ProdNonDiagonalCovWitness ==
  /\ PlainCall
  /\ Rule = "prod_psi1"
  /\ Len(Obj1.kern_list) = 2
  /\ on_separate_dimensions(Obj1)
  /\ args.p.covRank # DiagCovRank
  /\ out = Raise("InvalidArgumentError")

\* an operand (obj, feat) the generic rule has no evaluation function for
Unsupported(obj, feat) ==
  IF feat # NoneFeat
  THEN ~IsInstance(obj, "Kern") \/ ~IsInstance(feat, "InducingFeature")
  ELSE /\ obj # NoneObj
       /\ ~IsInstance(obj, "MeanFunction")
       /\ ~IsInstance(obj, "Kern")
       /\ ~IsInstance(obj, "function")

\* C8: the generic rule ends in an error when an operand is unsupported: a
\* feature with an object that is not a kernel (or a feature that is no
\* InducingFeature), or no feature and an object that is none of mean
\* function, kernel, plain function; also when both objects are None.
UnsupportedOperandRaises ==
  (Done /\ Rule = "quad"
     /\ \/ Unsupported(Obj1, Feat1)
        \/ Unsupported(Obj2, Feat2)
        \/ (Obj1 = NoneObj /\ Obj2 = NoneObj))
    => IsErr(out)

\* the evaluation function of an operand, built from its own feature
OwnEvalFunc(obj, feat, slice) ==
  IF feat # NoneFeat THEN <<"Kuf", obj, feat, slice>>
  ELSE IF IsInstance(obj, "MeanFunction") THEN <<"mean", obj, slice>>
  ELSE IF IsInstance(obj, "Kern") THEN <<"Kdiag", obj>>
  ELSE <<"fn", obj>>

\* C10: in the generic rule every present operand's integrand is built from
\* that operand's own feature, and two operands give the product of
\* operand 1's function and operand 2's function in that order.
IntegrandUsesOwnFeature ==
  (Done /\ Rule = "quad" /\ out[1] = "mvnquad") =>
    out[2] = (IF Obj2 = NoneObj THEN OwnEvalFunc(Obj1, Feat1, "...")
              ELSE IF Obj1 = NoneObj THEN OwnEvalFunc(Obj2, Feat2, "...")
              ELSE <<"mul", OwnEvalFunc(Obj1, Feat1, "[:,:,None]"),
                            OwnEvalFunc(Obj2, Feat2, "[:,None,:]")>>)

\* whether v is the left-nested sum ((ts[1] + ts[2]) + ...) + ts[m]
RECURSIVE IsSumOf(_, _, _)
IsSumOf(v, ts, m) ==
  IF m = 1 THEN v = ts[1]
  ELSE /\ v[1] = "add"
       /\ Len(v) = 3
       /\ v[3] = ts[m]
       /\ IsSumOf(v[2], ts, m - 1)

\* the cross term of the children k1, k2 of two Add kernels
CrossTerm(p, k1, k2, feat) ==
  IF ~k1.slice /\ ~k2.slice /\ k1.dims \cap k2.dims = {}
  THEN LET eKxz1 == expectation(p, k1, feat, NoneObj, NoneFeat, NoKw)
           eKxz2 == expectation(p, k2, feat, NoneObj, NoneFeat, NoKw)
       IN IF IsErr(eKxz1) THEN eKxz1
          ELSE IF IsErr(eKxz2) THEN eKxz2
          ELSE <<"mul", <<"index", eKxz1, "[:,:,None]">>,
                        <<"index", eKxz2, "[:,None,:]">>>>
  ELSE expectation(p, k1, feat, k2, feat, NoKw)

\* C11: Add x Add with one feature returns the sum, over every ordered
\* pair (k1, k2) of a child of kern1 and a child of kern2, each pair once
\* and kern1's children outermost, of the pair's cross term: the outer
\* product of the two first moments for a pair on disjoint dimensions, and
\* expectation(p, k1, feat, k2, feat) dispatched afresh otherwise (an error
\* of a term is the call's error).  With two different features the result
\* is the generic quadrature rule's on the two Add kernels.
AddAddIsPairwiseSum ==
  (PlainCall /\ Rule = "add_add") =>
    IF Feat1 # Feat2
    THEN /\ out = expectation_quad(args.p, Obj1, Feat1, Obj2, Feat2, DefaultH)
         /\ out[1] = "mvnquad"
    ELSE LET n1 == Len(Obj1.kern_list)
             n2 == Len(Obj2.kern_list)
             pairs == {<<i, j>> : i \in 1..n1, j \in 1..n2}
             terms == [n \in 1..(n1 * n2) |->
                         LET ij == CHOOSE ij \in pairs : (ij[1] - 1) * n2 + ij[2] = n
                         IN CrossTerm(args.p, Obj1.kern_list[ij[1]],
                                      Obj2.kern_list[ij[2]], Feat1)]
         IN IF \E n \in DOMAIN terms : IsErr(terms[n])
            THEN /\ IsErr(out)
                 /\ \E n \in DOMAIN terms : out = terms[n]
            ELSE IsSumOf(out, terms, n1 * n2)

\* C11's case: two Add kernels of two children each and one feature, the
\* four cross terms summed in order: a shared-dimensions pair answered by
\* the RBF x RBF rule first, an outer product of first moments second
AddAddPairwiseWitness ==
  /\ PlainCall
  /\ Rule = "add_add"
  /\ Feat1 = Feat2
  /\ Len(Obj1.kern_list) = 2 /\ Len(Obj2.kern_list) = 2
  /\ on_seperate_dims(Obj1.kern_list[1], Obj2.kern_list[2])
  /\ ~on_seperate_dims(Obj1.kern_list[1], Obj2.kern_list[1])
  /\ out[1] = "add"
  /\ out[2][1] = "add"
  /\ out[2][2][1] = "add"
  /\ out[2][2][2][1] = "eKzxKxz_rbf"
  /\ out[2][2][3][1] = "mul"

(***************************************************************************)
(* The Linear x Linear mean rule on numbers: one sample (N = 1), one input *)
(* dimension (D = 1), integer coefficients.  A mean function is            *)
(* m(x)[q] = A[q] * x + b[q]; the result is indexed [q][z].                *)
(***************************************************************************)
OutputDims1 == {1, 2}
OutputDims2 == {1}
Coefs == (0 - MaxCoef)..MaxCoef

\* a slip: the term b1 (mu^T A2) is contracted with A1 in place of A2
second_moment_linear_wrong_cross(mu, cov, A1, b1, A2, b2) ==
  LET e_xt_x == cov + mu * mu
  IN [q \in DOMAIN A1 |-> [z \in DOMAIN A2 |->
        A1[q] * e_xt_x * A2[z] + A1[q] * mu * b2[z] + b1[q] * mu * A1[q]
          + b1[q] * b2[z]]]

\* the body of expectation(p, mean1, None, mean2, None) for two Linear means
second_moment_linear(mu, cov, A1, b1, A2, b2) ==
  LET e_xt_x == cov + mu * mu
      e_A1t_xt_x_A2(q, z) == A1[q] * e_xt_x * A2[z]
      e_A1t_xt_b2(q, z) == A1[q] * mu * b2[z]
      e_b1t_x_A2(q, z) == b1[q] * mu * A2[z]
      e_b1t_b2(q, z) == b1[q] * b2[z]
  IN [q \in DOMAIN A1 |-> [z \in DOMAIN A2 |->
        e_A1t_xt_x_A2(q, z) + e_A1t_xt_b2(q, z) + e_b1t_x_A2(q, z) + e_b1t_b2(q, z)]]

\* p has mean mu and variance std^2; the two mean functions are built
InitLinear ==
  /\ pc = "idle"
  /\ \E mu \in (0 - MaxMu)..MaxMu, std \in 0..MaxStd,
        A1 \in [OutputDims1 -> Coefs], b1 \in [OutputDims1 -> Coefs],
        A2 \in [OutputDims2 -> Coefs], b2 \in [OutputDims2 -> Coefs] :
       args = [mu |-> mu, std |-> std, A1 |-> A1, b1 |-> b1, A2 |-> A2, b2 |-> b2]
  /\ out = <<"none">>

CallLinearLinear ==
  /\ pc = "idle"
  /\ out' = second_moment_linear(args.mu, args.std * args.std,
                                 args.A1, args.b1, args.A2, args.b2)
  /\ pc' = "done"
  /\ UNCHANGED args

NextLinear == CallLinearLinear

SpecLinear == InitLinear /\ [][NextLinear]_vars

\* C9: the Linear x Linear mean expectation is the exact second moment
\* A1^T (cov + mu mu^T) A2 + (A1^T mu) b2^T + b1 (mu^T A2) + b1 b2^T, and
\* equals the average of m1(x) m2(x) over the two points mu - s, mu + s
\* (a distribution of mean mu and variance cov = s^2).
LinearSecondMomentExact ==
  Done =>
    LET mu == args.mu
        s == args.std
        m1(q, x) == args.A1[q] * x + args.b1[q]
        m2(z, x) == args.A2[z] * x + args.b2[z]
    IN \A q \in OutputDims1, z \in OutputDims2 :
         /\ out[q][z] = args.A1[q] * (s * s + mu * mu) * args.A2[z]
                          + (args.A1[q] * mu) * args.b2[z]
                          + args.b1[q] * (mu * args.A2[z])
                          + args.b1[q] * args.b2[z]
         /\ 2 * out[q][z] = m1(q, mu - s) * m2(z, mu - s) + m1(q, mu + s) * m2(z, mu + s)

\* C9's case: a spread-out sample, every coefficient non-zero, and the two
\* outputs of mean 1 giving different moments
LinearSecondMomentWitness ==
  /\ Done
  /\ args.std > 0 /\ args.mu # 0
  /\ args.A1[1] # 0 /\ args.A1[2] # 0 /\ args.A2[1] # 0
  /\ args.b1[1] # 0 /\ args.b2[1] # 0
  /\ args.A1[1] # args.A1[2]
  /\ out[1][1] # out[2][1]

(***************************************************************************)
(* The calls a call makes.  A frame is one activation of a rule: the       *)
(* operands it was entered with (args), how it was entered (pc: "called"   *)
(* through the dispatcher expectation(), "quad_impl" through               *)
(* EXPECTATION_QUAD_IMPL), and in out the rule that entered it and its     *)
(* depth below the outside call.  A step follows one call a frame makes.   *)
(***************************************************************************)
MaxDepth == 4

\* a nested call expectation(p, obj1, feat1, obj2, feat2): no keyword
Callee(p, obj1, feat1, obj2, feat2) == MkArgs(p, obj1, feat1, obj2, feat2, NoKw)

\* what the call with the operands a returns or raises
Returned(a) == expectation(a.p, a.obj1, a.feat1, a.obj2, a.feat2, a.kw)

\* the concatenation of the first n sequences of ss
RECURSIVE Concat(_, _)
Concat(ss, n) == IF n = 0 THEN <<>> ELSE Concat(ss, n - 1) \o ss[n]

(***************************************************************************)
(* The calls of expectation() in the body of each rule, in program order.  *)
(* A call is made when every call before it has returned: an exception     *)
(* leaves the body.                                                        *)
(***************************************************************************)
\* (MeanFunction, None, Kern, InducingFeature)
mean_kern_swap_calls(p, mean, none, kern, feat) ==
  <<Callee(p, kern, feat, mean, NoneFeat)>>

\* (RBF, InducingPoints, Linear mean, None)
rbf_linmean_calls(p, rbf_kern, feat, linear_mean) ==
  <<Callee(p, rbf_kern, feat, MkMean("Identity"), NoneFeat),
    Callee(p, rbf_kern, feat, NoneObj, NoneFeat)>>

\* (RBF, InducingPoints, Constant, None)
rbf_constant_calls(p, rbf_kern, feat, constant_mean) ==
  <<Callee(p, rbf_kern, feat, NoneObj, NoneFeat)>>

\* a slip: the call is repeated with the operands in place
lin_rbf_swap_calls_in_place(p, lin_kern, feat1, rbf_kern, feat2) ==
  <<Callee(p, lin_kern, feat1, rbf_kern, feat2)>>

\* (Linear kernel, InducingPoints, RBF, InducingPoints)
lin_rbf_swap_calls(p, lin_kern, feat1, rbf_kern, feat2) ==
  <<Callee(p, rbf_kern, feat2, lin_kern, feat1)>>

\* (MeanFunction, None, Constant, None)
mean_const_swap_calls(p, mean1, mean2) ==
  <<Callee(p, mean2, NoneFeat, mean1, NoneFeat)>>

\* (Constant, None, MeanFunction, None)
const_mean_calls(p, mean1, mean2) ==
  <<Callee(p, mean2, NoneFeat, NoneObj, NoneFeat)>>

\* (Add, None, None, None)
add_psi0_calls(p, kern) ==
  [i \in DOMAIN kern.kern_list |->
     Callee(p, kern.kern_list[i], NoneFeat, NoneObj, NoneFeat)]

\* (Add, InducingPoints, None, None)
add_psi1_calls(p, kern, feat) ==
  [i \in DOMAIN kern.kern_list |->
     Callee(p, kern.kern_list[i], feat, NoneObj, NoneFeat)]

\* (Add, InducingPoints, Linear | Constant mean, None)
add_mean_calls(p, kern, feat, mean) ==
  [i \in DOMAIN kern.kern_list |->
     Callee(p, kern.kern_list[i], feat, mean, NoneFeat)]

\* (Add, InducingPoints, Add, InducingPoints): per pair of children, in
\* it.product's order, two first-moment calls or one call on the pair
add_add_calls(p, kern1, feat1, kern2, feat2) ==
  IF feat1 # feat2 THEN <<>>
  ELSE
    LET feat == feat1
        n1 == Len(kern1.kern_list)
        n2 == Len(kern2.kern_list)
        calls(k1, k2) ==
          IF on_seperate_dims(k1, k2)
          THEN <<Callee(p, k1, feat, NoneObj, NoneFeat),
                 Callee(p, k2, feat, NoneObj, NoneFeat)>>
          ELSE <<Callee(p, k1, feat, k2, feat)>>
    IN Concat([n \in 1..(n1 * n2) |->
                 calls(kern1.kern_list[((n - 1) \div n2) + 1],
                       kern2.kern_list[((n - 1) % n2) + 1])],
              n1 * n2)

\* (Prod, None, None, None)
prod_psi0_calls(p, kern) ==
  IF ~on_separate_dimensions(kern) THEN <<>>
  ELSE IF p.covRank # DiagCovRank THEN <<>>
  ELSE [i \in DOMAIN kern.kern_list |->
          Callee(p, kern.kern_list[i], NoneFeat, NoneObj, NoneFeat)]

\* (Prod, InducingPoints, None, None)
prod_psi1_calls(p, kern, feat) ==
  IF ~on_separate_dimensions(kern) THEN <<>>
  ELSE IF p.covRank # DiagCovRank THEN <<>>
  ELSE [i \in DOMAIN kern.kern_list |->
          Callee(p, kern.kern_list[i], feat, NoneObj, NoneFeat)]

\* (Prod, InducingPoints, Prod, InducingPoints)
prod_prod_calls(p, kern1, feat1, kern2, feat2) ==
  IF feat1 # feat2 THEN <<>>
  ELSE IF kern1 # kern2 THEN <<>>
  ELSE IF ~on_separate_dimensions(kern1) THEN <<>>
  ELSE IF p.covRank # DiagCovRank THEN <<>>
  ELSE [i \in DOMAIN kern1.kern_list |->
          Callee(p, kern1.kern_list[i], feat1, kern1.kern_list[i], feat1)]

\* the calls of expectation() made by the rule that the dispatcher hands
\* the call a to, by family of rules; a rule called with a keyword it does
\* not take raises before its body runs
SwapCalls(a) ==
  LET rule == dispatch(TypesOf(a.obj1, a.feat1, a.obj2, a.feat2))
  IN IF a.kw # NoKw THEN <<>>
     ELSE CASE rule = "mean_kern_swap" ->
                 mean_kern_swap_calls(a.p, a.obj1, a.feat1, a.obj2, a.feat2)
            [] rule = "lin_rbf_swap" ->
                 lin_rbf_swap_calls(a.p, a.obj1, a.feat1, a.obj2, a.feat2)
            [] rule = "mean_const_swap" -> mean_const_swap_calls(a.p, a.obj1, a.obj2)
            [] OTHER -> <<>>

RBFCalls(a) ==
  LET rule == dispatch(TypesOf(a.obj1, a.feat1, a.obj2, a.feat2))
  IN IF a.kw # NoKw THEN <<>>
     ELSE CASE rule = "rbf_linmean" -> rbf_linmean_calls(a.p, a.obj1, a.feat1, a.obj2)
            [] rule = "rbf_constant" -> rbf_constant_calls(a.p, a.obj1, a.feat1, a.obj2)
            [] OTHER -> <<>>

MeanCalls(a) ==
  LET rule == dispatch(TypesOf(a.obj1, a.feat1, a.obj2, a.feat2))
  IN IF a.kw # NoKw THEN <<>>
     ELSE CASE rule = "const_mean" -> const_mean_calls(a.p, a.obj1, a.obj2)
            [] OTHER -> <<>>

AddCalls(a) ==
  LET rule == dispatch(TypesOf(a.obj1, a.feat1, a.obj2, a.feat2))
  IN IF a.kw # NoKw THEN <<>>
     ELSE CASE rule = "add_psi0" -> add_psi0_calls(a.p, a.obj1)
            [] rule = "add_psi1" -> add_psi1_calls(a.p, a.obj1, a.feat1)
            [] rule = "add_mean" -> add_mean_calls(a.p, a.obj1, a.feat1, a.obj2)
            [] rule = "add_add" -> add_add_calls(a.p, a.obj1, a.feat1, a.obj2, a.feat2)
            [] OTHER -> <<>>

ProdCalls(a) ==
  LET rule == dispatch(TypesOf(a.obj1, a.feat1, a.obj2, a.feat2))
  IN IF a.kw # NoKw THEN <<>>
     ELSE CASE rule = "prod_psi0" -> prod_psi0_calls(a.p, a.obj1)
            [] rule = "prod_psi1" -> prod_psi1_calls(a.p, a.obj1, a.feat1)
            [] rule = "prod_prod" ->
                 prod_prod_calls(a.p, a.obj1, a.feat1, a.obj2, a.feat2)
            [] OTHER -> <<>>

\* the rules registered under @quadrature_fallback
WrappedRules == {"rbf_lin", "rbf_rbf", "add_add", "prod_prod"}

\* what function(*args, **kwargs) returned or raised inside the wrapper
Wrapped(a) ==
  LET rule == dispatch(TypesOf(a.obj1, a.feat1, a.obj2, a.feat2))
  IN CASE rule = "rbf_lin" -> rbf_lin(a.p, a.obj1, a.feat1, a.obj2, a.feat2)
       [] rule = "rbf_rbf" -> rbf_rbf(a.p, a.obj1, a.feat1, a.obj2, a.feat2)
       [] rule = "add_add" -> add_add(a.p, a.obj1, a.feat1, a.obj2, a.feat2)
       [] rule = "prod_prod" -> prod_prod(a.p, a.obj1, a.feat1, a.obj2, a.feat2)

Frame(by, depth) == <<"called_by", by, depth>>
Depth == out[3]

\* an outside call has been made and dispatched
InitCalls ==
  /\ pc = "called"
  /\ \E p \in Gaussians, obj1 \in FirstOperands, feat1 \in Features,
        feat2 \in Features, kw \in Kws :
       \E obj2 \in SecondOperands(obj1) :
         args = MkArgs(p, obj1, feat1, obj2, feat2, kw)
  /\ out = Frame("caller", 0)

\* the frame's rule, one of rules, makes one of the calls of its body, every
\* call before it having returned: the callee's frame
Descend(rules, calls) ==
  /\ Depth < MaxDepth
  /\ Rule \in rules
  /\ \E i \in DOMAIN calls :
       /\ \A j \in 1..(i - 1) : ~IsErr(Returned(calls[j]))
       /\ args' = calls[i]
       /\ pc' = "called"
       /\ out' = Frame(Rule, Depth + 1)

DescendSwap ==
  /\ pc = "called"
  /\ Descend(SwapRules, SwapCalls(args))
DescendRBF ==
  /\ pc = "called"
  /\ Descend(RBFRules, RBFCalls(args))
DescendMean ==
  /\ pc = "called"
  /\ Descend(MeanRules, MeanCalls(args))
DescendAdd ==
  /\ pc = "called"
  /\ Descend(AddRules, AddCalls(args))
DescendProd ==
  /\ pc = "called"
  /\ Descend(ProdRules, ProdCalls(args))

\* whether the wrapper's except clause catches what the wrapped rule raised
Caught(r) == IsErr(r) /\ r[2] \in {"KeyError", "NotImplementedError"}

\* a wrapped rule raised KeyError or NotImplementedError: the wrapper calls
\* EXPECTATION_QUAD_IMPL(*args), the generic rule itself, not the dispatcher
Fallback ==
  /\ pc = "called"
  /\ Depth < MaxDepth
  /\ Rule \in WrappedRules
  /\ args.kw = NoKw
  /\ Caught(Wrapped(args))
  /\ pc' = "quad_impl"
  /\ out' = Frame(Rule, Depth + 1)
  /\ UNCHANGED args

NextCalls ==
  \/ DescendSwap
  \/ DescendRBF
  \/ DescendMean
  \/ DescendAdd
  \/ DescendProd
  \/ Fallback

SpecCalls == InitCalls /\ [][NextCalls]_vars

\* the rule whose body the frame runs
RunningRule == IF pc = "quad_impl" THEN "quad" ELSE Rule

\* the number of kernels and mean functions in obj and its first n
\* children, None counting for nothing
RECURSIVE KernelSize(_, _)
KernelSize(obj, n) ==
  IF n = 0 THEN (IF obj = NoneObj THEN 0 ELSE 1)
  ELSE KernelSize(obj, n - 1)
         + KernelSize(obj.kern_list[n], Len(obj.kern_list[n].kern_list))

Size(obj) == KernelSize(obj, Len(obj.kern_list))

Children(obj) == {obj.kern_list[i] : i \in DOMAIN obj.kern_list}

\* rules that hand their operands on at the same size: a swap rule to the
\* exchanged call, a wrapped rule to the generic rule, RBF x Linear mean to
\* RBF x Identity
HandOnRank(rule) ==
  IF rule \in SwapRules THEN 2
  ELSE IF rule \in WrappedRules \cup {"rbf_linmean"} THEN 1
  ELSE 0

\* a measure of the frame that every call made from it must lower
Variant == 3 * (Size(Obj1) + Size(Obj2)) + HandOnRank(RunningRule)

\* the operand-class tuples given to a swap rule whose exchanged tuple is
\* given to a swap rule again
SwapChainTuples ==
  {t \in OperandClasses \X FeatureClasses \X OperandClasses \X FeatureClasses :
     /\ dispatch(t) \in SwapRules
     /\ dispatch(<<t[3], t[4], t[1], t[2]>>) \in SwapRules}

\* what holds of every call a frame makes
CallStep ==
  /\ Variant' < Variant
  /\ Variant' >= 0
  /\ Depth' < MaxDepth
  /\ RunningRule # "quad"
  /\ RunningRule \in SwapRules =>
       /\ pc' = "called"
       /\ Rule' \notin SwapRules
       /\ Obj1' = Obj2 /\ Obj2' = Obj1
       /\ SwapChainTuples = {}
  /\ (RunningRule \in AddRules \cup ProdRules /\ pc' = "called") =>
       /\ Obj1' \in Children(Obj1) \cup Children(Obj2)
       /\ Size(Obj1') + Size(Obj2') < Size(Obj1) + Size(Obj2)
       /\ Obj2' \in {NoneObj} \cup Children(Obj2)
            \cup (IF IsInstance(Obj2, "MeanFunction") THEN {Obj2} ELSE {})
  /\ pc' = "quad_impl" =>
       /\ RunningRule \in WrappedRules
       /\ UNCHANGED args
  /\ ~(pc' = pc /\ args' = args)

\* C12: every chain of nested calls is finite, so every call of
\* expectation() on finite kernels ends: each call a rule makes lowers a
\* natural-number measure of the frame; a swap rule calls the exchanged
\* operands, which dispatch to a rule that is no swap rule; an Add or Prod
\* rule calls the dispatcher only on children of its kernels; the fallback
\* enters the generic rule on the same operands, and the generic rule makes
\* no call; no rule calls itself with the operands it was given.
EveryCallTerminates == [][CallStep]_vars

\* C12's case: the longest chain, an Add x Add call whose pair (Linear
\* kernel, RBF) went to the swap rule, that to RBF x Linear, which declined
\* and was answered by the generic rule
NestedCallsWitness ==
  /\ pc = "quad_impl"
  /\ out = Frame("rbf_lin", 3)
  /\ Obj1.cls = "RBF" /\ Obj2.cls = "LinearKern"

====
